---- MODULE Spec2Model ----
(***************************************************************************)
(* Model of graphrag/query/input/loaders/dfs.py: the six read_* loaders    *)
(* that turn a pandas DataFrame into lists of data-model objects.          *)
(*                                                                         *)
(* A DataFrame is a record                                                 *)
(*   [index_name, index, columns, rows]                                    *)
(* index_name is the name of the row index (NONE when it has none), index  *)
(* the sequence of row labels, columns the sequence of column names and    *)
(* rows the cells, row by row.  A cell, and every field of a produced      *)
(* object, is a value record [tag, n, s, l].                               *)
(***************************************************************************)
EXTENDS Integers, Sequences, FiniteSets, TLC

VARIABLES
    df,                  \* the caller's DataFrame
    df0,                 \* that DataFrame as it was before the first call
    attributes_default,  \* the default attributes_cols list of read_text_units
    call,                \* the last load call: loader and keyword arguments
    outcome,             \* what the last call returned or raised
    repeated,            \* the last call repeated the call before it
    prev_outcome         \* then: the outcome of the call before it

vars == <<df, df0, attributes_default, call, outcome, repeated, prev_outcome>>

-----------------------------------------------------------------------------
(* Bounds *)

MaxRows == 2

\* largest number the numeric-text parser of the model knows
MaxNum == 30

-----------------------------------------------------------------------------
(* Values *)

\* Python None as a column binding or an index name
NONE == "<None>"

Null == [tag |-> "null", n |-> 0, s |-> "", l |-> <<>>]
StrV(x) == [tag |-> "str", n |-> 0, s |-> x, l |-> <<>>]
IntV(k) == [tag |-> "int", n |-> k, s |-> "", l |-> <<>>]
FloatV(k) == [tag |-> "float", n |-> k, s |-> "", l |-> <<>>]
ListV(xs) == [tag |-> "list", n |-> 0, s |-> "", l |-> xs]
DictV(kvs) == [tag |-> "dict", n |-> 0, s |-> "", l |-> kvs]

Digits == <<"0", "1", "2", "3", "4", "5", "6", "7", "8", "9">>

RECURSIVE DecStr(_)
DecStr(k) ==
    IF k < 10 THEN Digits[k + 1]
    ELSE DecStr(k \div 10) \o Digits[(k % 10) + 1]

RECURSIVE Join(_, _)
Join(ss, sep) ==
    IF ss = <<>> THEN ""
    ELSE IF Len(ss) = 1 THEN ss[1]
    ELSE ss[1] \o sep \o Join(Tail(ss), sep)

\* repr() of a value inside a list or dict: strings are quoted
Repr(v) ==
    CASE v.tag = "str" -> "'" \o v.s \o "'"
      [] v.tag = "int" -> DecStr(v.n)
      [] v.tag = "float" -> DecStr(v.n) \o ".0"
      [] OTHER -> "None"

\* Python str(value)
Str(v) ==
    CASE v.tag = "str" -> v.s
      [] v.tag = "int" -> DecStr(v.n)
      [] v.tag = "float" -> DecStr(v.n) \o ".0"
      [] v.tag = "list" ->
            "[" \o Join([j \in 1..Len(v.l) |-> Repr(v.l[j])], ", ") \o "]"
      [] v.tag = "dict" ->
            "{" \o Join([j \in 1..Len(v.l) |->
                           "'" \o v.l[j].k \o "': " \o Repr(v.l[j].v)], ", ") \o "}"
      [] OTHER -> "None"

Range(f) == {f[j] : j \in DOMAIN f}

-----------------------------------------------------------------------------
(* Result of an evaluation that may raise *)

Ok(v) == [ok |-> TRUE, v |-> v, err |-> ""]
Raise(e) == [ok |-> FALSE, v |-> Null, err |-> e]

-----------------------------------------------------------------------------
(* _prepare_records *)

\* DataFrame.reset_index(): the old index becomes the first column, named by
\* the index name, or "index" ("level_0" when "index" is taken) for an unnamed
\* index; inserting a name the frame already has raises ValueError.  The new
\* frame has the default index 0..N-1.
ResetColumn(d) ==
    IF d.index_name # NONE THEN d.index_name
    ELSE IF "index" \in Range(d.columns) THEN "level_0"
    ELSE "index"

reset_index(d) ==
    IF ResetColumn(d) \in Range(d.columns)
    THEN Raise("ValueError")
    ELSE Ok([index_name |-> NONE,
             index |-> [i \in 1..Len(d.rows) |-> IntV(i - 1)],
             columns |-> <<ResetColumn(d)>> \o d.columns,
             rows |-> [i \in 1..Len(d.rows) |-> <<d.index[i]>> \o d.rows[i]]])

\* DataFrame.rename(columns={"index": "Index"})
rename(d) ==
    [d EXCEPT !.columns =
        [j \in 1..Len(d.columns) |->
            IF d.columns[j] = "index" THEN "Index" ELSE d.columns[j]]]

\* DataFrame.to_dict("records"): one dict(zip(columns, row)) per row, in row
\* order; of two columns with one name the later one is kept.
LastPos(cols, c) == CHOOSE j \in 1..Len(cols) :
    cols[j] = c /\ \A k \in (j + 1)..Len(cols) : cols[k] # c

\* mutant of to_dict_records: the records come out last row first
to_dict_records_reversed(d) ==
    [i \in 1..Len(d.rows) |->
        [c \in Range(d.columns) |->
            d.rows[Len(d.rows) + 1 - i][LastPos(d.columns, c)]]]

to_dict_records(d) ==
    [i \in 1..Len(d.rows) |->
        [c \in Range(d.columns) |-> d.rows[i][LastPos(d.columns, c)]]]

_prepare_records(d) ==
    LET df_reset == reset_index(d)
    IN  IF df_reset.ok THEN Ok(to_dict_records(rename(df_reset.v)))
        ELSE Raise(df_reset.err)

\* mutant of df_after_prepare: reset_index(inplace=True) and
\* rename(inplace=True) on the caller's frame
df_after_prepare_inplace(d) ==
    IF reset_index(d).ok THEN rename(reset_index(d).v) ELSE d

\* df.reset_index() is called without inplace: the caller's frame is the
\* frame it was.
df_after_prepare(d) == d

-----------------------------------------------------------------------------
(* graphrag.query.input.loaders.utils: the coercion helpers, as the         *)
(* loader's specification states them (section 4.1); the module itself is   *)
(* not part of the sources modelled here.  A row is a mapping from column   *)
(* name to raw cell value.                                                  *)

IsNumeric(s) == \E k \in 0..MaxNum : DecStr(k) = s
ParseNum(s) == CHOOSE k \in 0..MaxNum : DecStr(k) = s

Absent(row, col) == col = NONE \/ col \notin DOMAIN row \/ row[col] = Null

to_str(row, col) ==
    IF col = NONE \/ col \notin DOMAIN row THEN Raise("MissingColumnError")
    ELSE IF row[col] = Null THEN Raise("CoercionError")
    ELSE Ok(StrV(Str(row[col])))

to_optional_str(row, col) ==
    IF Absent(row, col) THEN Ok(Null) ELSE Ok(StrV(Str(row[col])))

\* int(value) / float(value)
ToNumber(v) ==
    CASE v.tag \in {"int", "float"} -> Ok(v.n)
      [] v.tag = "str" /\ IsNumeric(v.s) -> Ok(ParseNum(v.s))
      [] OTHER -> Raise("CoercionError")

to_optional_int(row, col) ==
    IF Absent(row, col) THEN Ok(Null)
    ELSE IF ToNumber(row[col]).ok THEN Ok(IntV(ToNumber(row[col]).v))
    ELSE Raise("CoercionError")

to_optional_float(row, col) ==
    IF Absent(row, col) THEN Ok(Null)
    ELSE IF ToNumber(row[col]).ok THEN Ok(FloatV(ToNumber(row[col]).v))
    ELSE Raise("CoercionError")

\* item_type is "str", "float" or NONE (items passed through)
CoerceItem(v, item_type) ==
    CASE item_type = "str" -> Ok(StrV(Str(v)))
      [] item_type = "float" ->
            IF ToNumber(v).ok THEN Ok(FloatV(ToNumber(v).v))
            ELSE Raise("CoercionError")
      [] OTHER -> Ok(v)

CoerceItems(xs, item_type) ==
    IF \E j \in 1..Len(xs) : ~CoerceItem(xs[j], item_type).ok
    THEN Raise("CoercionError")
    ELSE Ok(ListV([j \in 1..Len(xs) |-> CoerceItem(xs[j], item_type).v]))

to_optional_list(row, col, item_type) ==
    IF Absent(row, col) THEN Ok(Null)
    ELSE IF row[col].tag = "list" THEN CoerceItems(row[col].l, item_type)
    ELSE CoerceItems(<<row[col]>>, item_type)

to_list(row, col) ==
    IF Absent(row, col) THEN Ok(ListV(<<>>))
    ELSE to_optional_list(row, col, NONE)

to_optional_dict(row, col) ==
    IF Absent(row, col) THEN Ok(Null)
    ELSE IF row[col].tag = "dict"
    THEN Ok(DictV([j \in 1..Len(row[col].l) |->
                     [k |-> row[col].l[j].k, v |-> StrV(Str(row[col].l[j].v))]]))
    ELSE Raise("CoercionError")

-----------------------------------------------------------------------------
(* Pieces shared by the six loaders *)

\* Python truthiness of a column binding / of attributes_cols
Truthy(col) == col # NONE /\ col # ""

AttrNone == [none |-> TRUE, cols |-> <<>>]
AttrList(cs) == [none |-> FALSE, cols |-> cs]

\* str(row["Index"])
row_Index(row) ==
    IF "Index" \in DOMAIN row THEN Ok(StrV(Str(row["Index"])))
    ELSE Raise("KeyError")

\* mutant of short_id: the row index also stands in for a bound column the
\* row does not have
short_id_fallback(row, short_id_col) ==
    IF Truthy(short_id_col) /\ short_id_col \in DOMAIN row
    THEN to_optional_str(row, short_id_col)
    ELSE row_Index(row)

\* to_optional_str(row, short_id_col) if short_id_col else str(row["Index"])
short_id(row, short_id_col) ==
    IF Truthy(short_id_col) THEN to_optional_str(row, short_id_col)
    ELSE row_Index(row)

\* the keys of {col: ... for col in attributes_cols}: first occurrences, in order
RECURSIVE Dedup(_)
Dedup(cs) ==
    IF cs = <<>> THEN <<>>
    ELSE IF cs[Len(cs)] \in Range(SubSeq(cs, 1, Len(cs) - 1))
    THEN Dedup(SubSeq(cs, 1, Len(cs) - 1))
    ELSE Append(Dedup(SubSeq(cs, 1, Len(cs) - 1)), cs[Len(cs)])

\* row.get(col)
row_get(row, col) == IF col \in DOMAIN row THEN row[col] ELSE Null

\* mutant of attributes: only the columns the row has are copied
attributes_present_only(row, attributes_cols) ==
    IF ~attributes_cols.none /\ attributes_cols.cols # <<>>
    THEN Ok(DictV(SelectSeq(
            [j \in 1..Len(Dedup(attributes_cols.cols)) |->
                [k |-> Dedup(attributes_cols.cols)[j],
                 v |-> row_get(row, Dedup(attributes_cols.cols)[j])]],
            LAMBDA kv : kv.k \in DOMAIN row)))
    ELSE Ok(Null)

\* {col: row.get(col) for col in attributes_cols} if attributes_cols else None
attributes(row, attributes_cols) ==
    IF ~attributes_cols.none /\ attributes_cols.cols # <<>>
    THEN Ok(DictV([j \in 1..Len(Dedup(attributes_cols.cols)) |->
                     [k |-> Dedup(attributes_cols.cols)[j],
                      v |-> row_get(row, Dedup(attributes_cols.cols)[j])]]))
    ELSE Ok(Null)

\* one keyword argument of a constructor call
F(name, r) == [name |-> name, r |-> r]

\* The keyword arguments are evaluated left to right; the first one that
\* raises ends the call, otherwise the object is constructed.
Construct(fields) ==
    IF \E j \in 1..Len(fields) : ~fields[j].r.ok
    THEN Raise(fields[CHOOSE j \in 1..Len(fields) :
                    /\ ~fields[j].r.ok
                    /\ \A k \in 1..(j - 1) : fields[k].r.ok].r.err)
    ELSE Ok([nm \in {fields[j].name : j \in 1..Len(fields)} |->
                fields[CHOOSE j \in 1..Len(fields) : fields[j].name = nm].r.v])

\* Outcome of a load call
ListOutcome(objs) == [kind |-> "list", objs |-> objs, err |-> ""]
ErrorOutcome(e) == [kind |-> "error", objs |-> <<>>, err |-> e]
NoOutcome == [kind |-> "none", objs |-> <<>>, err |-> ""]

\* mutant of comprehension: a row whose constructor call raises is skipped
comprehension_skip(results) ==
    LET kept == SelectSeq(results, LAMBDA r : r.ok)
    IN  ListOutcome([i \in 1..Len(kept) |-> kept[i].v])

\* mutant of comprehension: the rows before the first one that raises are
\* returned
comprehension_partial(results) ==
    IF \E i \in 1..Len(results) : ~results[i].ok
    THEN ListOutcome([i \in 1..((CHOOSE k \in 1..Len(results) :
                    /\ ~results[k].ok
                    /\ \A j \in 1..(k - 1) : results[j].ok) - 1) |-> results[i].v])
    ELSE ListOutcome([i \in 1..Len(results) |-> results[i].v])

\* [ <constructor call> for row in records ]: rows are taken in order and the
\* first row whose constructor call raises ends the comprehension.
comprehension(results) ==
    IF \E i \in 1..Len(results) : ~results[i].ok
    THEN ErrorOutcome(results[CHOOSE i \in 1..Len(results) :
                    /\ ~results[i].ok
                    /\ \A k \in 1..(i - 1) : results[k].ok].err)
    ELSE ListOutcome([i \in 1..Len(results) |-> results[i].v])

-----------------------------------------------------------------------------
(* The six loaders.  a is the record of the keyword arguments of the call. *)

Entity(row, a) == Construct(<<
    F("id", to_str(row, a.id_col)),
    F("short_id", short_id(row, a.short_id_col)),
    F("title", to_str(row, a.title_col)),
    F("type", to_optional_str(row, a.type_col)),
    F("description", to_optional_str(row, a.description_col)),
    F("name_embedding", to_optional_list(row, a.name_embedding_col, "float")),
    F("description_embedding",
      to_optional_list(row, a.description_embedding_col, "float")),
    F("community_ids", to_optional_list(row, a.community_col, "str")),
    F("text_unit_ids", to_optional_list(row, a.text_unit_ids_col, NONE)),
    F("rank", to_optional_int(row, a.rank_col)),
    F("attributes", attributes(row, a.attributes_cols)) >>)

read_entities(d, a) ==
    LET records == _prepare_records(d)
    IN  IF ~records.ok THEN ErrorOutcome(records.err)
        ELSE comprehension([i \in 1..Len(records.v) |-> Entity(records.v[i], a)])

Relationship(row, a) == Construct(<<
    F("id", to_str(row, a.id_col)),
    F("short_id", short_id(row, a.short_id_col)),
    F("source", to_str(row, a.source_col)),
    F("target", to_str(row, a.target_col)),
    F("description", to_optional_str(row, a.description_col)),
    F("description_embedding",
      to_optional_list(row, a.description_embedding_col, "float")),
    F("weight", to_optional_float(row, a.weight_col)),
    F("text_unit_ids", to_optional_list(row, a.text_unit_ids_col, "str")),
    F("rank", to_optional_int(row, a.rank_col)),
    F("attributes", attributes(row, a.attributes_cols)) >>)

read_relationships(d, a) ==
    LET records == _prepare_records(d)
    IN  IF ~records.ok THEN ErrorOutcome(records.err)
        ELSE comprehension([i \in 1..Len(records.v) |-> Relationship(records.v[i], a)])

\* mutant of covariate_type: "claim" also stands in for a bound column the
\* row does not have
covariate_type_lenient(row, covariate_type_col) ==
    IF Truthy(covariate_type_col) /\ covariate_type_col \in DOMAIN row
    THEN to_str(row, covariate_type_col)
    ELSE Ok(StrV("claim"))

\* to_str(row, covariate_type_col) if covariate_type_col else "claim"
covariate_type(row, covariate_type_col) ==
    IF Truthy(covariate_type_col) THEN to_str(row, covariate_type_col)
    ELSE Ok(StrV("claim"))

Covariate(row, a) == Construct(<<
    F("id", to_str(row, a.id_col)),
    F("short_id", short_id(row, a.short_id_col)),
    F("subject_id", to_str(row, a.subject_col)),
    F("covariate_type", covariate_type(row, a.covariate_type_col)),
    F("text_unit_ids", to_optional_list(row, a.text_unit_ids_col, "str")),
    F("attributes", attributes(row, a.attributes_cols)) >>)

read_covariates(d, a) ==
    LET records == _prepare_records(d)
    IN  IF ~records.ok THEN ErrorOutcome(records.err)
        ELSE comprehension([i \in 1..Len(records.v) |-> Covariate(records.v[i], a)])

Community(row, a) == Construct(<<
    F("id", to_str(row, a.id_col)),
    F("short_id", short_id(row, a.short_id_col)),
    F("title", to_str(row, a.title_col)),
    F("level", to_str(row, a.level_col)),
    F("entity_ids", to_optional_list(row, a.entities_col, "str")),
    F("relationship_ids", to_optional_list(row, a.relationships_col, "str")),
    F("covariate_ids", to_optional_dict(row, a.covariates_col)),
    F("parent", to_str(row, a.parent_col)),
    F("children", to_list(row, a.children_col)),
    F("attributes", attributes(row, a.attributes_cols)) >>)

read_communities(d, a) ==
    LET records == _prepare_records(d)
    IN  IF ~records.ok THEN ErrorOutcome(records.err)
        ELSE comprehension([i \in 1..Len(records.v) |-> Community(records.v[i], a)])

CommunityReport(row, a) == Construct(<<
    F("id", to_str(row, a.id_col)),
    F("short_id", short_id(row, a.short_id_col)),
    F("title", to_str(row, a.title_col)),
    F("community_id", to_str(row, a.community_col)),
    F("summary", to_str(row, a.summary_col)),
    F("full_content", to_str(row, a.content_col)),
    F("rank", to_optional_float(row, a.rank_col)),
    F("full_content_embedding",
      to_optional_list(row, a.content_embedding_col, "float")),
    F("attributes", attributes(row, a.attributes_cols)) >>)

read_community_reports(d, a) ==
    LET records == _prepare_records(d)
    IN  IF ~records.ok THEN ErrorOutcome(records.err)
        ELSE comprehension([i \in 1..Len(records.v) |-> CommunityReport(records.v[i], a)])

TextUnit(row, a) == Construct(<<
    F("id", to_str(row, a.id_col)),
    F("short_id", row_Index(row)),
    F("text", to_str(row, a.text_col)),
    F("entity_ids", to_optional_list(row, a.entities_col, "str")),
    F("relationship_ids", to_optional_list(row, a.relationships_col, "str")),
    F("covariate_ids", to_optional_dict(row, a.covariates_col)),
    F("n_tokens", to_optional_int(row, a.tokens_col)),
    F("document_ids", to_optional_list(row, a.document_ids_col, "str")),
    F("attributes", attributes(row, a.attributes_cols)) >>)

read_text_units(d, a) ==
    LET records == _prepare_records(d)
    IN  IF ~records.ok THEN ErrorOutcome(records.err)
        ELSE comprehension([i \in 1..Len(records.v) |-> TextUnit(records.v[i], a)])

\* The default values of the keyword arguments
entities_defaults ==
    [id_col |-> "id", short_id_col |-> "human_readable_id", title_col |-> "title",
     type_col |-> "type", description_col |-> "description",
     name_embedding_col |-> "name_embedding",
     description_embedding_col |-> "description_embedding",
     community_col |-> "community_ids", text_unit_ids_col |-> "text_unit_ids",
     rank_col |-> "degree", attributes_cols |-> AttrNone]

relationships_defaults ==
    [id_col |-> "id", short_id_col |-> "human_readable_id",
     source_col |-> "source", target_col |-> "target",
     description_col |-> "description", rank_col |-> "combined_degree",
     description_embedding_col |-> "description_embedding",
     weight_col |-> "weight", text_unit_ids_col |-> "text_unit_ids",
     attributes_cols |-> AttrNone]

covariates_defaults ==
    [id_col |-> "id", short_id_col |-> "human_readable_id",
     subject_col |-> "subject_id", covariate_type_col |-> "type",
     text_unit_ids_col |-> "text_unit_ids", attributes_cols |-> AttrNone]

communities_defaults ==
    [id_col |-> "id", short_id_col |-> "community", title_col |-> "title",
     level_col |-> "level", entities_col |-> "entity_ids",
     relationships_col |-> "relationship_ids", covariates_col |-> "covariate_ids",
     parent_col |-> "parent", children_col |-> "children",
     attributes_cols |-> AttrNone]

community_reports_defaults ==
    [id_col |-> "id", short_id_col |-> "community", title_col |-> "title",
     community_col |-> "community", summary_col |-> "summary",
     content_col |-> "full_content", rank_col |-> "rank",
     content_embedding_col |-> "full_content_embedding",
     attributes_cols |-> AttrNone]

\* attributes_cols defaults to the one list object made when the function is
\* defined; shared is that list as it is when the call is made.
text_units_defaults(shared) ==
    [id_col |-> "id", text_col |-> "text", entities_col |-> "entity_ids",
     relationships_col |-> "relationship_ids", covariates_col |-> "covariate_ids",
     tokens_col |-> "n_tokens", document_ids_col |-> "document_ids",
     attributes_cols |-> AttrList(shared)]

-----------------------------------------------------------------------------
(* The caller's tables *)

Schemas ==
    { <<"id", "title">>,
      <<"id", "title", "human_readable_id", "degree">>,
      <<"id", "source", "target">>,
      <<"id", "subject_id">>,
      <<"id", "subject_id", "type">>,
      <<"id", "title", "level", "parent", "children", "community">>,
      <<"id", "title", "community", "summary", "full_content", "rank">>,
      <<"id", "text">>,
      <<"id", "text", "metadata", "human_readable_id">>,
      <<"id", "text", "index">>,
      <<"id", "text", "Index">> }

\* the cell of column col in the i-th row (i from 1) of a well-formed table
CellValue(col, i) ==
    CASE col = "human_readable_id" -> IntV(i + 6)
      [] col = "community" -> IntV(i + 2)
      [] col = "level" -> IntV(i)
      [] col = "parent" -> IntV(i + 1)
      [] col = "degree" -> IntV(i + 3)
      [] col = "index" -> IntV(i + 20)
      [] col = "rank" -> FloatV(i)
      [] col = "children" -> ListV(<<IntV(i + 4)>>)
      [] OTHER -> StrV(col \o DecStr(i))

NoDefect == [i |-> 0, j |-> 0, v |-> Null]

\* one cell may be null, and one numeric cell may hold text that is no number
Defects(cols, n) ==
    {NoDefect}
    \cup {[i |-> i, j |-> j, v |-> Null] :
            i \in 1..n, j \in {k \in 1..Len(cols) : cols[k] # "children"}}
    \cup {[i |-> i, j |-> j, v |-> StrV("x")] :
            i \in 1..n, j \in {k \in 1..Len(cols) : cols[k] \in {"degree", "rank"}}}

\* the row index: the default 0..N-1, the labels left by a filter, a named
\* index of keys, and the "id" column set as index and kept as a column
IndexKinds == {"range", "filtered", "named", "named_id"}

IndexName(kind) ==
    CASE kind = "named" -> "key"
      [] kind = "named_id" -> "id"
      [] OTHER -> NONE

IndexLabel(kind, i) ==
    CASE kind = "range" -> IntV(i - 1)
      [] kind = "filtered" -> IntV(2 * i - 1)
      [] kind = "named" -> StrV("k" \o DecStr(i))
      [] OTHER -> CellValue("id", i)

Table(cols, n, kind, defect) ==
    [index_name |-> IndexName(kind),
     index |-> [i \in 1..n |-> IndexLabel(kind, i)],
     columns |-> cols,
     rows |-> [i \in 1..n |-> [j \in 1..Len(cols) |->
                 IF defect.i = i /\ defect.j = j THEN defect.v
                 ELSE CellValue(cols[j], i)]]]

\* a table with a defect keeps the default index
Tables ==
    UNION { { Table(cols, n, kind, NoDefect) : kind \in IndexKinds }
            \cup { Table(cols, n, "range", defect) : defect \in Defects(cols, n) } :
            cols \in Schemas, n \in 0..MaxRows }

-----------------------------------------------------------------------------
(* The calls *)

NoCall == [op |-> "none", args |-> entities_defaults]

AttrChoices ==
    { AttrNone, AttrList(<<>>), AttrList(<<"foo", "id", "foo">>),
      AttrList(<<"Index", "index">>) }

Init ==
    /\ df \in Tables
    /\ df0 = df
    /\ attributes_default = <<"metadata">>
    /\ call = NoCall
    /\ outcome = NoOutcome
    /\ repeated = FALSE
    /\ prev_outcome = NoOutcome

\* A load call: out is what it returns or raises.  The caller keeps the
\* outcome of the call before when this call repeats it.
Call(op, a, out) ==
    /\ call' = [op |-> op, args |-> a]
    /\ outcome' = out
    /\ repeated' = (call.op = op /\ call.args = a)
    /\ prev_outcome' = IF call.op = op /\ call.args = a THEN outcome ELSE NoOutcome
    /\ df' = df_after_prepare(df)
    /\ UNCHANGED <<df0, attributes_default>>

\* the bindings a caller passes for short_id_col and attributes_cols
\* (default is the default of short_id_col)
ShortIdAttr(default) ==
    { [sc |-> default, ac |-> ac] : ac \in AttrChoices }
    \cup { [sc |-> NONE, ac |-> AttrNone] }

read_entities_call ==
    \E b \in ShortIdAttr("human_readable_id") :
        LET a == [entities_defaults EXCEPT
                    !.short_id_col = b.sc, !.attributes_cols = b.ac]
        IN  Call("read_entities", a, read_entities(df, a))

read_relationships_call ==
    \E b \in ShortIdAttr("human_readable_id"), src \in {"source", "src"} :
        /\ src = "src" => b.ac = AttrNone
        /\ LET a == [relationships_defaults EXCEPT
                       !.short_id_col = b.sc, !.source_col = src,
                       !.attributes_cols = b.ac]
           IN  Call("read_relationships", a, read_relationships(df, a))

read_covariates_call ==
    \E b \in ShortIdAttr("human_readable_id"), tc \in {"type", NONE} :
        /\ tc = NONE => b.ac = AttrNone
        /\ LET a == [covariates_defaults EXCEPT
                       !.short_id_col = b.sc, !.covariate_type_col = tc,
                       !.attributes_cols = b.ac]
           IN  Call("read_covariates", a, read_covariates(df, a))

read_communities_call ==
    \E b \in ShortIdAttr("community") :
        LET a == [communities_defaults EXCEPT
                    !.short_id_col = b.sc, !.attributes_cols = b.ac]
        IN  Call("read_communities", a, read_communities(df, a))

read_community_reports_call ==
    \E b \in ShortIdAttr("community") :
        LET a == [community_reports_defaults EXCEPT
                    !.short_id_col = b.sc, !.attributes_cols = b.ac]
        IN  Call("read_community_reports", a, read_community_reports(df, a))

\* attributes_cols left out of the call is the shared default list
read_text_units_call ==
    \E ac \in AttrChoices \cup {AttrList(attributes_default)} :
        LET a == [text_units_defaults(attributes_default) EXCEPT
                    !.attributes_cols = ac]
        IN  Call("read_text_units", a, read_text_units(df, a))

Next ==
    \/ read_entities_call
    \/ read_relationships_call
    \/ read_covariates_call
    \/ read_communities_call
    \/ read_community_reports_call
    \/ read_text_units_call

Spec == Init /\ [][Next]_vars

-----------------------------------------------------------------------------
(* What the claims speak of *)

ShortIdOps ==
    {"read_entities", "read_relationships", "read_covariates",
     "read_communities", "read_community_reports"}

Called == call.op # "none"
Returned == outcome.kind = "list"
NRows == Len(df.rows)

\* the cell of column c in the i-th row of the caller's table
TableCell(d, i, c) == d.rows[i][CHOOSE j \in 1..Len(d.columns) : d.columns[j] = c]

\* the stringified zero-based position of the i-th row (i from 1)
Position(i) == StrV(DecStr(i - 1))

\* no null cell, and an unnamed row index
WellFormed(d) ==
    /\ d.index_name = NONE
    /\ \A i \in 1..Len(d.rows) : \A j \in 1..Len(d.columns) : d.rows[i][j] # Null

\* C1: a load call that completes returns exactly one object per row of the
\* table, and the i-th object is built from the i-th row (its id is the text
\* of the i-th row's id cell).
C1_OneObjectPerRowInOrder ==
    (Called /\ Returned) =>
        /\ Len(outcome.objs) = NRows
        /\ \A i \in 1..NRows :
              outcome.objs[i].id = StrV(Str(TableCell(df, i, call.args.id_col)))

C1_Witness ==
    /\ call.op = "read_communities"
    /\ Returned
    /\ Len(outcome.objs) >= 2
    /\ outcome.objs[1].id # outcome.objs[2].id

\* C2 (as claimed): with short_id_col = None, whatever row labels and index
\* name the table carries, the i-th object's short_id is the string of the
\* zero-based position i.
C2_ShortIdIsPosition ==
    (call.op \in ShortIdOps /\ call.args.short_id_col = NONE /\ Returned) =>
        \A i \in 1..Len(outcome.objs) : outcome.objs[i].short_id = Position(i)

\* C8 (as claimed): read_text_units sets the i-th TextUnit's short_id to the
\* string of the row's zero-based position, never to a column's value.
C8_TextUnitShortIdIsPosition ==
    (call.op = "read_text_units" /\ Returned) =>
        \A i \in 1..Len(outcome.objs) : outcome.objs[i].short_id = Position(i)

\* C3 (as claimed): when the short_id binding names a column the row does not
\* have, short_id falls back to the stringified zero-based row position.
C3_MissingShortIdColumnFallsBack ==
    (/\ call.op \in ShortIdOps
     /\ Truthy(call.args.short_id_col)
     /\ call.args.short_id_col \notin Range(df.columns)
     /\ Returned) =>
        \A i \in 1..Len(outcome.objs) : outcome.objs[i].short_id = Position(i)

\* C3 (amended): when the short_id binding names a column, short_id is the
\* optional-string coercion of that column: null when the row does not have
\* the column, the text of the cell when it has one.  The row position is
\* not used.
C3_MissingShortIdColumnIsNull ==
    (/\ call.op \in ShortIdOps
     /\ Truthy(call.args.short_id_col)
     /\ Returned) =>
        \A i \in 1..Len(outcome.objs) :
            IF call.args.short_id_col \notin Range(df.columns)
            THEN outcome.objs[i].short_id = Null
            ELSE TableCell(df, i, call.args.short_id_col) # Null =>
                    outcome.objs[i].short_id =
                        StrV(Str(TableCell(df, i, call.args.short_id_col)))

C3_Witness ==
    /\ call.op = "read_entities"
    /\ call.args.short_id_col = "human_readable_id"
    /\ df.columns = <<"id", "title">>
    /\ Returned
    /\ Len(outcome.objs) = 2
    /\ outcome.objs[2].short_id = Null

\* C4 (as claimed): read_covariates on a table with the columns id and
\* subject_id returns one Covariate per row with covariate_type "claim", with
\* the covariate_type binding None and with it left at its default.
C4_NoTypeColumnYieldsClaim ==
    (/\ call.op = "read_covariates"
     /\ df.columns = <<"id", "subject_id">>
     /\ WellFormed(df)) =>
        /\ Returned
        /\ Len(outcome.objs) = NRows
        /\ \A i \in 1..Len(outcome.objs) :
              outcome.objs[i].covariate_type = StrV("claim")

\* C4 (amended): on such a table, with the covariate_type binding None every
\* Covariate returned has covariate_type "claim", and a table without null
\* cells and with an unnamed index gives one per row; with the binding left at
\* its default "type" a table with at least one row gives an error and no
\* list (MissingColumnError when nothing fails before it), and only the table
\* without rows gives a list, the empty one.
C4_ClaimOnlyWhenUnbound ==
    (/\ call.op = "read_covariates"
     /\ df.columns = <<"id", "subject_id">>) =>
        IF call.args.covariate_type_col = NONE
        THEN /\ Returned =>
                  /\ Len(outcome.objs) = NRows
                  /\ \A i \in 1..Len(outcome.objs) :
                        outcome.objs[i].covariate_type = StrV("claim")
             /\ WellFormed(df) => Returned
        ELSE /\ NRows >= 1 => outcome.kind = "error"
             /\ (NRows >= 1 /\ WellFormed(df)) => outcome.err = "MissingColumnError"
             /\ (NRows = 0 /\ df.index_name = NONE) => outcome = ListOutcome(<<>>)

C4_Witness ==
    /\ call.op = "read_covariates"
    /\ df.columns = <<"id", "subject_id">>
    /\ WellFormed(df)
    /\ NRows = 2
    /\ call.args.covariate_type_col = "type"
    /\ outcome.err = "MissingColumnError"

\* the columns bound to the fields a loader reads with to_str
RequiredCols(c) ==
    CASE c.op = "read_entities" -> {c.args.id_col, c.args.title_col}
      [] c.op = "read_relationships" ->
            {c.args.id_col, c.args.source_col, c.args.target_col}
      [] c.op = "read_covariates" ->
            {c.args.id_col, c.args.subject_col}
            \cup (IF Truthy(c.args.covariate_type_col)
                  THEN {c.args.covariate_type_col} ELSE {})
      [] c.op = "read_communities" ->
            {c.args.id_col, c.args.title_col, c.args.level_col, c.args.parent_col}
      [] c.op = "read_community_reports" ->
            {c.args.id_col, c.args.title_col, c.args.community_col,
             c.args.summary_col, c.args.content_col}
      [] c.op = "read_text_units" -> {c.args.id_col, c.args.text_col}
      [] OTHER -> {}

LacksRequired == Called /\ RequiredCols(call) \ Range(df.columns) # {}

\* C5 (as claimed): a table that lacks the column bound to a required field
\* makes the load call end in MissingColumnError, whatever its number of
\* rows, zero included.
C5_MissingRequiredColumnAlwaysRaises ==
    (LacksRequired /\ WellFormed(df)) => outcome.err = "MissingColumnError"

\* C5 (amended): a table with at least one row that lacks the column bound to
\* a required field makes the load call end in an error and return no list,
\* in MissingColumnError when nothing fails before it; a table with no rows
\* never ends in MissingColumnError, and returns the empty list unless
\* reset_index raises.
C5_MissingRequiredColumnRaisesOnFirstRow ==
    LacksRequired =>
        /\ NRows >= 1 => outcome.kind = "error" /\ outcome.objs = <<>>
        /\ (NRows >= 1 /\ WellFormed(df)) => outcome.err = "MissingColumnError"
        /\ NRows = 0 => outcome.err # "MissingColumnError"
        /\ (NRows = 0 /\ df.index_name = NONE) => outcome = ListOutcome(<<>>)

C5_Witness ==
    /\ call.op = "read_relationships"
    /\ call.args.source_col = "src"
    /\ df.columns = <<"id", "source", "target">>
    /\ NRows = 2
    /\ outcome.err = "MissingColumnError"

C5_WitnessNoRows ==
    /\ call.op = "read_relationships"
    /\ call.args.source_col = "src"
    /\ df.columns = <<"id", "source", "target">>
    /\ NRows = 0
    /\ outcome = ListOutcome(<<>>)

\* the constructor call of the loader of call c on one row
RowResult(c, row) ==
    CASE c.op = "read_entities" -> Entity(row, c.args)
      [] c.op = "read_relationships" -> Relationship(row, c.args)
      [] c.op = "read_covariates" -> Covariate(row, c.args)
      [] c.op = "read_communities" -> Community(row, c.args)
      [] c.op = "read_community_reports" -> CommunityReport(row, c.args)
      [] OTHER -> TextUnit(row, c.args)

\* the rows of the caller's table whose coercion fails
FailingRows ==
    IF ~Called \/ ~_prepare_records(df).ok THEN {}
    ELSE {k \in 1..NRows : ~RowResult(call, _prepare_records(df).v[k]).ok}

\* C6: a load call ends in a complete list, one object for every row, or in
\* an error with no list at all; when the coercion of a field of some row
\* fails, the call ends in the error of the first such row: the rows before
\* it are not returned, it is not skipped, the rows after it are not loaded.
C6_AllOrNothing ==
    Called =>
        /\ outcome.kind \in {"list", "error"}
        /\ outcome.kind = "list" =>
              /\ Len(outcome.objs) = NRows
              /\ outcome.err = ""
              /\ FailingRows = {}
        /\ outcome.kind = "error" => outcome.objs = <<>> /\ outcome.err # ""
        /\ \A k \in FailingRows :
              (\A j \in 1..(k - 1) : j \notin FailingRows) =>
                  /\ outcome.kind = "error"
                  /\ outcome.err = RowResult(call, _prepare_records(df).v[k]).err

C6_Witness ==
    /\ NRows = 2
    /\ FailingRows = {2}
    /\ outcome.kind = "error"
    /\ outcome.err = "CoercionError"

\* the names _prepare_records itself gives to columns of a table d
IndexColumns(d) == {"index", "Index", "level_0", d.index_name}

\* the raw cell of column c in the i-th row, null when the table lacks c
CellOrNull(d, i, c) == IF c \in Range(d.columns) THEN TableCell(d, i, c) ELSE Null

AttributeKeys(at) == {at.l[j].k : j \in 1..Len(at.l)}

\* C7 (as claimed): with attributes_cols a non-empty list, attributes maps
\* exactly the listed names, each to the row's raw cell of that column or to
\* null when the table lacks the column; with None or an empty list it is
\* null.
C7_AttributesFromTable ==
    (Called /\ Returned) =>
        \A i \in 1..Len(outcome.objs) :
            IF ~call.args.attributes_cols.none /\ call.args.attributes_cols.cols # <<>>
            THEN /\ outcome.objs[i].attributes.tag = "dict"
                 /\ AttributeKeys(outcome.objs[i].attributes)
                        = Range(call.args.attributes_cols.cols)
                 /\ \A j \in 1..Len(outcome.objs[i].attributes.l) :
                        outcome.objs[i].attributes.l[j].v
                            = CellOrNull(df, i, outcome.objs[i].attributes.l[j].k)
            ELSE outcome.objs[i].attributes = Null

\* C7 (amended): with attributes_cols a non-empty list, attributes maps
\* exactly the listed names, each to what the row mapping of the index-reset
\* table holds under it, or to null when it holds nothing: for a name other
\* than "index", "Index", "level_0" and the name of the table's index that is
\* the row's raw cell, or null when the table lacks the column; the name
\* "Index" maps to the row's index label when the table has an unnamed index
\* and no column "index" or "Index".  With None or an empty list attributes
\* is null; read_text_units left at its default gives {"metadata": cell or
\* null}.
C7_AttributesFromRowMapping ==
    (Called /\ Returned) =>
        \A i \in 1..Len(outcome.objs) :
            IF ~call.args.attributes_cols.none /\ call.args.attributes_cols.cols # <<>>
            THEN /\ outcome.objs[i].attributes.tag = "dict"
                 /\ AttributeKeys(outcome.objs[i].attributes)
                        = Range(call.args.attributes_cols.cols)
                 /\ Len(outcome.objs[i].attributes.l)
                        = Cardinality(Range(call.args.attributes_cols.cols))
                 /\ \A j \in 1..Len(outcome.objs[i].attributes.l) :
                      LET k == outcome.objs[i].attributes.l[j].k
                          v == outcome.objs[i].attributes.l[j].v
                      IN  /\ k \notin IndexColumns(df) => v = CellOrNull(df, i, k)
                          /\ (/\ k = "Index"
                              /\ df.index_name = NONE
                              /\ "index" \notin Range(df.columns)
                              /\ "Index" \notin Range(df.columns)) => v = df.index[i]
            ELSE outcome.objs[i].attributes = Null

C7_Witness ==
    /\ call.op = "read_covariates"
    /\ call.args.attributes_cols = AttrList(<<"foo", "id", "foo">>)
    /\ Returned
    /\ Len(outcome.objs) = 2
    /\ outcome.objs[2].attributes =
          DictV(<<[k |-> "foo", v |-> Null], [k |-> "id", v |-> StrV("id2")]>>)

C7_WitnessDefault ==
    /\ call.op = "read_text_units"
    /\ call.args.attributes_cols = AttrList(<<"metadata">>)
    /\ Returned
    /\ Len(outcome.objs) >= 1
    /\ outcome.objs[1].attributes = DictV(<<[k |-> "metadata", v |-> Null]>>)

\* C9: a load call that repeats the call before it, on the same table with
\* the same bindings, has the same outcome: the same error, or an equal list.
C9_Idempotent == repeated => outcome = prev_outcome

C9_Witness ==
    /\ repeated
    /\ Returned
    /\ Len(outcome.objs) = 2
    /\ prev_outcome.kind = "list"

C9_WitnessError ==
    /\ repeated
    /\ outcome.kind = "error"
    /\ prev_outcome.kind = "error"

\* C10: after any sequence of load calls the caller's table is the table it
\* was, and the shared default attributes_cols list of read_text_units is
\* ["metadata"].
C10_InputsUnchanged == df = df0 /\ attributes_default = <<"metadata">>

C10_Witness ==
    /\ repeated
    /\ call.op = "read_text_units"
    /\ call.args.attributes_cols = AttrList(<<"metadata">>)
    /\ Returned
    /\ NRows = 2
    /\ df.index = <<IntV(1), IntV(3)>>

====
